---- MODULE Spec2Model ----
(***************************************************************************)
(* Model of metronotescli/setup.py: configuration resolution and rendering *)
(* (generate_config_file, extract_old_config, extract_bitcoincore_config,  *)
(* get_server_known_config, server_to_client_config,                       *)
(* generate_config_files) and the bootstrap download (bootstrap with its   *)
(* nested is_within_directory / safe_extract).                             *)
(*                                                                         *)
(* Python strings are TLA+ strings; TLC evaluates Len, SubSeq and \o on    *)
(* them, so the string functions below work character by character as the *)
(* Python ones do.  A text file is the sequence of its lines.  The file    *)
(* system is `files` (absolute path -> [data, mode]) and `dirs` (the set   *)
(* of existing directories).                                               *)
(***************************************************************************)
EXTENDS Integers, Sequences, FiniteSets, TLC

VARIABLES
    files,      \* absolute path -> [data |-> <<line, ...>>, mode |-> string]
    dirs,       \* set of existing directories (absolute paths)
    tar,        \* safe_extract: the opened archive, a sequence of members
    result,     \* safe_extract: "none" (not called), "ok", "raised"
    btc_conf,   \* the foreign daemon's bitcoin.conf: [exists, lines]
    old_conf,   \* the legacy metronotesd.conf as configparser reads it:
                \* [exists, has_default, items]
    bitcoincore_config,     \* generate_config_files: locals of the last call
    old_config,
    merged,                 \* what get_server_known_config() returned
    server_known_config,    \* the mapping rendered to server.conf
    client_known_config,
    last,       \* outcome of the last call: "none", "both" (server.conf and
                \* client.conf generated), "server" (server.conf only), "skipped"
    probed,     \* the last call read the two source files
    generated,  \* the password the last call generated, "" if it generated none
    existed,    \* history: server.conf existed when the last call began
    ngen,       \* history: how many passwords have been generated
    created,    \* history: server.conf's data when it first existed, else <<>>
    overwrite,      \* generate_config_file: the overwrite argument of the last call
    config_args,    \* ... and the arguments of the last call that wrote the file
    known_config,
    outcome,        \* the last call: "none", "skipped" (early return), "written"
    was_there,      \* history: the target existed when the last call began
    origin,         \* history: the target's data when it was created or last
                    \* written by an overwrite = True call, else <<>>
    pc,         \* bootstrap: "idle" (not called), the step about to run, or how
                \* the call ended: "returned", "raised"
    ov,         \* bootstrap's overwrite argument
    ask,        \* bootstrap's ask_confirmation argument
    declined,   \* the user answered the prompt with something other than y
    log,        \* history: the steps of the call that completed, in order
    failed,     \* history: the step that raised, "" if none did
    files0,     \* history: files and dirs when bootstrap was called
    dirs0

extractVars == <<tar, result>>
configVars == <<btc_conf, old_conf, bitcoincore_config, old_config, merged,
                server_known_config, client_known_config, last, probed, generated,
                existed, ngen, created>>
renderVars == <<overwrite, config_args, known_config, outcome, was_there, origin>>
bootVars == <<pc, ov, ask, declined, log, failed, files0, dirs0>>
vars == <<files, dirs, extractVars, configVars, renderVars, bootVars>>

(***************************************************************************)
(* Bounds of the model.                                                    *)
(***************************************************************************)
MaxMembers == 2     \* members of an archive handed to safe_extract
MaxBtcLines == 2    \* lines of bitcoin.conf
MaxOldItems == 2    \* options of the legacy file's Default section
MaxArgs == 2        \* entries of a config_args list handed to generate_config_file

(***************************************************************************)
(* Python str and dict primitives.                                         *)
(***************************************************************************)
Char(s, i) == SubSeq(s, i, i)

StartsWith(s, p) == Len(p) <= Len(s) /\ SubSeq(s, 1, Len(p)) = p

EndsWith(s, p) == Len(p) <= Len(s) /\ SubSeq(s, Len(s) - Len(p) + 1, Len(s)) = p

Contains(s, p) == \E i \in 1..(Len(s) - Len(p) + 1) : SubSeq(s, i, i + Len(p) - 1) = p

Min(a, b) == IF a <= b THEN a ELSE b

\* str.replace(old, new) for a non-empty old: leftmost, non-overlapping.
RECURSIVE Replace(_, _, _)
Replace(s, old, new) ==
    IF Len(s) < Len(old) THEN s
    ELSE IF StartsWith(s, old)
         THEN new \o Replace(SubSeq(s, Len(old) + 1, Len(s)), old, new)
         ELSE Char(s, 1) \o Replace(SubSeq(s, 2, Len(s)), old, new)

\* str.split(sep) for a one-character sep: a sequence of (possibly empty) parts.
RECURSIVE SplitFrom(_, _, _)
SplitFrom(s, sep, cur) ==
    IF s = "" THEN <<cur>>
    ELSE IF Char(s, 1) = sep
         THEN <<cur>> \o SplitFrom(SubSeq(s, 2, Len(s)), sep, "")
         ELSE SplitFrom(SubSeq(s, 2, Len(s)), sep, cur \o Char(s, 1))

Split(s, sep) == SplitFrom(s, sep, "")

\* sep.join(parts)
RECURSIVE JoinStr(_, _)
JoinStr(parts, sep) ==
    IF parts = <<>> THEN ""
    ELSE IF Len(parts) = 1 THEN parts[1]
         ELSE parts[1] \o sep \o JoinStr(Tail(parts), sep)

\* dict.update: the entries of b replace and extend those of a.
DictUpdate(a, b) ==
    [k \in (DOMAIN a) \cup (DOMAIN b) |-> IF k \in DOMAIN b THEN b[k] ELSE a[k]]

EmptyDict == [k \in {} |-> ""]

\* A file system without files.
NoFiles == [p \in {} |-> [data |-> <<>>, mode |-> ""]]

\* str.strip() of blanks
RECURSIVE LStrip(_)
LStrip(s) == IF s # "" /\ Char(s, 1) = " " THEN LStrip(SubSeq(s, 2, Len(s))) ELSE s

RECURSIVE RStrip(_)
RStrip(s) ==
    IF s # "" /\ Char(s, Len(s)) = " " THEN RStrip(SubSeq(s, 1, Len(s) - 1)) ELSE s

Strip(s) == RStrip(LStrip(s))

(***************************************************************************)
(* The variables a specification does not use keep these values.           *)
(***************************************************************************)
ExtractIdle == tar = <<>> /\ result = "none"

ConfigIdle ==
    /\ btc_conf = [exists |-> FALSE, lines |-> <<>>]
    /\ old_conf = [exists |-> FALSE, has_default |-> FALSE, items |-> <<>>]
    /\ bitcoincore_config = EmptyDict
    /\ old_config = EmptyDict
    /\ merged = EmptyDict
    /\ server_known_config = EmptyDict
    /\ client_known_config = EmptyDict
    /\ last = "none"
    /\ probed = FALSE
    /\ generated = ""
    /\ existed = FALSE
    /\ ngen = 0
    /\ created = <<>>

RenderIdle ==
    /\ overwrite = FALSE
    /\ config_args = <<>>
    /\ known_config = EmptyDict
    /\ outcome = "none"
    /\ was_there = FALSE
    /\ origin = <<>>

BootIdle ==
    /\ pc = "idle"
    /\ ov = FALSE
    /\ ask = FALSE
    /\ declined = FALSE
    /\ log = <<>>
    /\ failed = ""
    /\ files0 = NoFiles
    /\ dirs0 = {}

(***************************************************************************)
(* os.path (posixpath).                                                    *)
(***************************************************************************)
\* os.path.join(a, p) for two arguments
PathJoin(a, p) ==
    IF StartsWith(p, "/") THEN p
    ELSE IF a = "" \/ EndsWith(a, "/") THEN a \o p
         ELSE a \o "/" \o p

\* The loop of posixpath.normpath over the components.
RECURSIVE NormComps(_, _, _)
NormComps(comps, new_comps, initial_slashes) ==
    IF comps = <<>> THEN new_comps
    ELSE LET comp == Head(comps) IN
         IF comp = "" \/ comp = "."
         THEN NormComps(Tail(comps), new_comps, initial_slashes)
         ELSE IF comp # ".."
                 \/ (initial_slashes = 0 /\ new_comps = <<>>)
                 \/ (new_comps # <<>> /\ new_comps[Len(new_comps)] = "..")
              THEN NormComps(Tail(comps), Append(new_comps, comp), initial_slashes)
              ELSE IF new_comps # <<>>
                   THEN NormComps(Tail(comps), SubSeq(new_comps, 1, Len(new_comps) - 1),
                                  initial_slashes)
                   ELSE NormComps(Tail(comps), new_comps, initial_slashes)

\* posixpath.normpath
NormPath(path) ==
    IF path = "" THEN "."
    ELSE LET initial_slashes ==
                 IF ~StartsWith(path, "/") THEN 0
                 ELSE IF StartsWith(path, "//") /\ ~StartsWith(path, "///") THEN 2 ELSE 1
             body == JoinStr(NormComps(Split(path, "/"), <<>>, initial_slashes), "/")
             p == (IF initial_slashes = 2 THEN "//"
                   ELSE IF initial_slashes = 1 THEN "/" ELSE "") \o body
         IN IF p = "" THEN "." ELSE p

\* os.path.abspath in the working directory cwd
AbsPath(cwd, path) ==
    NormPath(IF StartsWith(path, "/") THEN path ELSE PathJoin(cwd, path))

\* os.path.commonprefix of two strings: their longest common prefix, by character.
CommonPrefix(a, b) ==
    LET n == CHOOSE k \in 0..Min(Len(a), Len(b)) :
                 /\ SubSeq(a, 1, k) = SubSeq(b, 1, k)
                 /\ (k = Min(Len(a), Len(b)) \/ Char(a, k + 1) # Char(b, k + 1))
    IN SubSeq(a, 1, n)

\* os.path.dirname of an absolute normalised path
Dirname(p) ==
    LET comps == Split(p, "/")
        head == JoinStr(SubSeq(comps, 1, Len(comps) - 1), "/")
    IN IF head = "" THEN "/" ELSE head

\* The directories os.makedirs(p) makes exist: p and its ancestors.
RECURSIVE MakeDirs(_)
MakeDirs(p) == IF p = "/" THEN {"/"} ELSE {p} \cup MakeDirs(Dirname(p))

(***************************************************************************)
(* bootstrap's nested is_within_directory and safe_extract.                *)
(***************************************************************************)
Cwd == "/w/d"       \* the process's working directory, where archives are unpacked

is_within_directory(directory, target) ==
    LET abs_directory == AbsPath(Cwd, directory)
        abs_target == AbsPath(Cwd, target)
        prefix == CommonPrefix(abs_directory, abs_target)
    IN prefix = abs_directory

\* The pre-pass of safe_extract: TRUE iff it raises "Attempted Path Traversal".
SafeExtractRaises(members, path) ==
    \E i \in 1..Len(members) :
        ~is_within_directory(path, PathJoin(path, members[i].name))

\* tar.extractall(path): every member, in order, written at join(path, name);
\* the directories above it are created.
RECURSIVE ExtractAllFiles(_, _, _)
ExtractAllFiles(fs, members, path) ==
    IF members = <<>> THEN fs
    ELSE LET m == Head(members)
             target == AbsPath(Cwd, PathJoin(path, m.name))
             entry == [data |-> m.data, mode |-> "0o644"]
         IN ExtractAllFiles(
                [p \in (DOMAIN fs) \cup {target} |-> IF p = target THEN entry ELSE fs[p]],
                Tail(members), path)

ExtractAllDirs(ds, members, path) ==
    ds \cup UNION { MakeDirs(Dirname(AbsPath(Cwd, PathJoin(path, members[i].name)))) :
                    i \in 1..Len(members) }

(***************************************************************************)
(* Specification SpecExtract: safe_extract applied to every archive of at  *)
(* most MaxMembers members with names from MemberNames.                    *)
(***************************************************************************)
MemberNames ==
    { "f", "a/f", "./a/../g", "../f", "../../etc/passwd", "/etc/passwd",
      "../d2/f", "//w/d/f" }

Members == [name : MemberNames, data : {<<"new">>}]

Archives == UNION { [1..n -> Members] : n \in 0..MaxMembers }

ExtractFiles0 ==
    [p \in {"/etc/passwd", "/w/d/f"} |-> [data |-> <<"old">>, mode |-> "0o644"]]

ExtractDirs0 == {"/", "/etc", "/w", "/w/d"}

InitExtract ==
    /\ files = ExtractFiles0
    /\ dirs = ExtractDirs0
    /\ tar \in Archives
    /\ result = "none"
    /\ ConfigIdle
    /\ RenderIdle
    /\ BootIdle

SafeExtractRaise ==
    /\ result = "none"
    /\ SafeExtractRaises(tar, ".")
    /\ result' = "raised"
    /\ UNCHANGED <<files, dirs, tar, configVars, renderVars, bootVars>>

SafeExtractOk ==
    /\ result = "none"
    /\ ~SafeExtractRaises(tar, ".")
    /\ files' = ExtractAllFiles(files, tar, ".")
    /\ dirs' = ExtractAllDirs(dirs, tar, ".")
    /\ result' = "ok"
    /\ UNCHANGED <<tar, configVars, renderVars, bootVars>>

NextExtract == SafeExtractRaise \/ SafeExtractOk

SpecExtract == InitExtract /\ [][NextExtract]_vars

(***************************************************************************)
(* C1: safe_extract never writes outside the destination root: an archive  *)
(* with a member whose absolute target lies outside the absolute           *)
(* destination root makes safe_extract raise, leaving every file and       *)
(* directory as it was.                                                    *)
(***************************************************************************)
\* target is the directory root or a path below it, by path components
InsideRoot(root, target) ==
    \/ target = root
    \/ StartsWith(target, IF root = "/" THEN "/" ELSE root \o "/")

HasOutsideMember(members, path) ==
    \E i \in 1..Len(members) :
        ~InsideRoot(AbsPath(Cwd, path), AbsPath(Cwd, PathJoin(path, members[i].name)))

C1_NeverWritesOutside ==
    (result # "none" /\ HasOutsideMember(tar, "."))
        => (result = "raised" /\ files = ExtractFiles0 /\ dirs = ExtractDirs0)

(***************************************************************************)
(* Configuration values.  Python values are dynamically typed; a value is  *)
(* a record tagged with its type: None, str, bool, int, or a float/Decimal *)
(* (tag "dec", n counted in hundredths).                                   *)
(***************************************************************************)
PyNone == [t |-> "none", s |-> "", b |-> FALSE, n |-> 0]
PyStr(x) == [t |-> "str", s |-> x, b |-> FALSE, n |-> 0]
PyBool(x) == [t |-> "bool", s |-> "", b |-> x, n |-> 0]
PyInt(x) == [t |-> "int", s |-> "", b |-> FALSE, n |-> x]
PyDec(x) == [t |-> "dec", s |-> "", b |-> FALSE, n |-> x]

\* A mapping read from files holds strings.
StrDict(m) == [k \in DOMAIN m |-> PyStr(m[k])]

\* format(value, '.8f') of a non-negative amount of n hundredths
Format8f(n) ==
    ToString(n \div 100) \o "." \o (IF n % 100 < 10 THEN "0" ELSE "")
        \o ToString(n % 100) \o "000000"

(***************************************************************************)
(* generate_config_file                                                    *)
(***************************************************************************)
\* An entry of config_args is arg = [flags, kwargs]:
\* [flags |-> <<"-x", "--long-name">>, help |-> text,
\*  has_default |-> 'default' in kwargs, default |-> kwargs['default']].

\* Faulty variant: no special case for bool, which then prints as str(bool).
ArgLinesBoolAsText(arg, known) ==
    LET key == Replace(arg.flags[Len(arg.flags)], "--", "")
        value == IF key \in DOMAIN known THEN known[key]
                 ELSE IF arg.has_default THEN arg.default
                 ELSE PyNone
        line == IF value.t = "none" THEN ("# " \o key) \o " = " \o ""
                ELSE IF value.t = "bool" THEN key \o " = " \o (IF value.b THEN "True" ELSE "False")
                ELSE IF value.t = "dec" THEN key \o " = " \o Format8f(value.n)
                ELSE IF value.t = "int" THEN key \o " = " \o ToString(value.n)
                ELSE key \o " = " \o value.s
    IN << "# " \o arg.help, line, "" >>

\* The two lines and the blank line one entry of config_args contributes.
ArgLines(arg, known) ==
    LET key == Replace(arg.flags[Len(arg.flags)], "--", "")
        value == IF key \in DOMAIN known THEN known[key]
                 ELSE IF arg.has_default THEN arg.default
                 ELSE PyNone
        line == IF value.t = "none" THEN ("# " \o key) \o " = " \o ""
                ELSE IF value.t = "bool" THEN key \o " = " \o (IF value.b THEN "1" ELSE "0")
                ELSE IF value.t = "dec" THEN key \o " = " \o Format8f(value.n)
                ELSE IF value.t = "int" THEN key \o " = " \o ToString(value.n)
                ELSE key \o " = " \o value.s
    IN << "# " \o arg.help, line, "" >>

RECURSIVE ArgsLines(_, _)
ArgsLines(args, known) ==
    IF args = <<>> THEN <<>>
    ELSE ArgLines(Head(args), known) \o ArgsLines(Tail(args), known)

ConfigLines(args, known) == <<"[Default]", "">> \o ArgsLines(args, known)

\* os.path.exists
Exists(fs, path) ==
    LET p == AbsPath(Cwd, path) IN p \in DOMAIN fs.files \/ p \in fs.dirs

\* Faulty variant: the early return is never taken.
SkipsWriteNever(fs, filename, ow) == FALSE

\* The early return of generate_config_file.
SkipsWrite(fs, filename, ow) == ~ow /\ Exists(fs, filename)

\* generate_config_file(filename, config_args, known_config, overwrite) on the
\* file system fs = [files, dirs]: the file system it leaves.  (args, known and
\* ow stand for config_args, known_config and overwrite.)
GenerateConfigFile(fs, filename, args, known, ow) ==
    IF SkipsWrite(fs, filename, ow) THEN fs
    ELSE LET path == AbsPath(Cwd, filename)
             config_dir == Dirname(path)
             entry == [data |-> ConfigLines(args, known), mode |-> "0o660"]
         IN [files |-> [p \in (DOMAIN fs.files) \cup {path} |->
                            IF p = path THEN entry ELSE fs.files[p]],
             dirs |-> IF Exists(fs, config_dir) THEN fs.dirs
                      ELSE fs.dirs \cup MakeDirs(config_dir)]

(***************************************************************************)
(* extract_old_config, extract_bitcoincore_config, get_server_known_config *)
(***************************************************************************)
\* The loop of extract_old_config over configfile['Default'], in file order.
RECURSIVE OldItems(_, _)
OldItems(items, old_cfg) ==
    IF items = <<>> THEN old_cfg
    ELSE LET key == Head(items).key
             new_key == Replace(Replace(key, "backend-rpc-", "backend-"),
                                "blockchain-service-name", "backend-name")
             new_value == Replace(Head(items).value, "jmcorgan", "addrindex")
         IN OldItems(Tail(items),
                     [k \in (DOMAIN old_cfg) \cup {new_key} |->
                          IF k = new_key THEN new_value ELSE old_cfg[k]])

ExtractOldConfig(conf) ==
    IF conf.exists /\ conf.has_default THEN OldItems(conf.items, EmptyDict)
    ELSE EmptyDict

\* The loop of extract_bitcoincore_config over fd.readlines().
RECURSIVE BtcLines(_, _)
BtcLines(lines, conf) ==
    IF lines = <<>> THEN conf
    ELSE LET line == Head(lines) IN
         IF Contains(line, "#") \/ ~Contains(line, "=")
         THEN BtcLines(Tail(lines), conf)
         ELSE LET at == CHOOSE i \in 1..Len(line) :
                            Char(line, i) = "=" /\ ~Contains(SubSeq(line, 1, i - 1), "=")
                  k == Strip(SubSeq(line, 1, at - 1))
                  v == Strip(SubSeq(line, at + 1, Len(line)))
              IN BtcLines(Tail(lines),
                          [x \in (DOMAIN conf) \cup {k} |-> IF x = k THEN v ELSE conf[x]])

BitcoinKeys ==
    [rpcport |-> "backend-port", rpcuser |-> "backend-user",
     rpcpassword |-> "backend-password", rpcssl |-> "backend-ssl"]

ExtractBitcoincoreConfig(file) ==
    IF ~file.exists THEN EmptyDict
    ELSE LET conf == BtcLines(file.lines, EmptyDict)
             found == {k \in DOMAIN BitcoinKeys : k \in DOMAIN conf}
         IN [mk \in {BitcoinKeys[k] : k \in found} |->
                conf[CHOOSE k \in found : BitcoinKeys[k] = mk]]

\* Faulty variant: the two updates in the other order, so the foreign value wins.
GetServerKnownConfigForeignWins(btc, old) ==
    DictUpdate(DictUpdate(EmptyDict, ExtractOldConfig(old)), ExtractBitcoincoreConfig(btc))

GetServerKnownConfig(btc, old) ==
    LET bitcoincore_cfg == ExtractBitcoincoreConfig(btc)
        with_btc == DictUpdate(EmptyDict, bitcoincore_cfg)
        old_cfg == ExtractOldConfig(old)
    IN DictUpdate(with_btc, old_cfg)

(***************************************************************************)
(* server_to_client_config                                                 *)
(***************************************************************************)
ClientKeys ==
    ( "backend-connect" :> "wallet-connect" @@
      "backend-port" :> "wallet-port" @@
      "backend-user" :> "wallet-user" @@
      "backend-password" :> "wallet-password" @@
      "backend-ssl" :> "wallet-ssl" @@
      "backend-ssl-verify" :> "wallet-ssl-verify" @@
      "rpc-host" :> "metronotes-rpc-connect" @@
      "rpc-port" :> "metronotes-rpc-port" @@
      "rpc-user" :> "metronotes-rpc-user" @@
      "rpc-password" :> "metronotes-rpc-password" )

\* Faulty variant: keys without a translation are passed through.
ServerToClientConfigPassThrough(server_config) ==
    [ck \in {IF k \in DOMAIN ClientKeys THEN ClientKeys[k] ELSE k : k \in DOMAIN server_config}
        |-> server_config[CHOOSE k \in DOMAIN server_config :
                              ck = (IF k \in DOMAIN ClientKeys THEN ClientKeys[k] ELSE k)]]

ServerToClientConfig(server_config) ==
    LET found == {k \in DOMAIN ClientKeys : k \in DOMAIN server_config}
    IN [ck \in {ClientKeys[k] : k \in found} |->
           server_config[CHOOSE k \in found : ClientKeys[k] = ck]]

(***************************************************************************)
(* generate_config_files                                                   *)
(***************************************************************************)
ConfigDir == "/c"       \* appdirs.user_config_dir(...)
ServerConfigFile == PathJoin(ConfigDir, "server.conf")
ClientConfigFile == PathJoin(ConfigDir, "client.conf")

\* metronotescli.server.CONFIG_ARGS and metronotescli.client.CONFIG_ARGS
Arg(flags, help, has_default, default) ==
    [flags |-> flags, help |-> help, has_default |-> has_default, default |-> default]

SERVER_CONFIG_ARGS ==
    << Arg(<<"--backend-name">>, "the backend", TRUE, PyStr("addrindex")),
       Arg(<<"--backend-connect">>, "backend host", TRUE, PyStr("localhost")),
       Arg(<<"--backend-port">>, "backend port", FALSE, PyNone),
       Arg(<<"--backend-user">>, "backend user", TRUE, PyStr("bitcoinrpc")),
       Arg(<<"--backend-ssl">>, "use SSL", TRUE, PyBool(FALSE)),
       Arg(<<"--rpc-password">>, "API password", FALSE, PyNone) >>

CLIENT_CONFIG_ARGS ==
    << Arg(<<"--wallet-connect">>, "wallet host", TRUE, PyStr("localhost")),
       Arg(<<"--wallet-port">>, "wallet port", FALSE, PyNone),
       Arg(<<"--wallet-user">>, "wallet user", TRUE, PyStr("bitcoinrpc")),
       Arg(<<"--metronotes-rpc-password">>, "API password", FALSE, PyNone) >>

\* util.hexlify(util.dhash(os.urandom(16))): some non-empty hex string
Passwords == {"9f3a", "c07e"}

\* Faulty variant: the body runs whether or not server.conf exists.
FirstRunAlways(fs) == TRUE

\* The test that guards the body of generate_config_files.
FirstRun(fs) == ~Exists(fs, ServerConfigFile)

GenerateConfigFiles ==
    \E pw \in Passwords :
    \E fs \in {[files |-> files, dirs |-> dirs]} :
        /\ existed' = Exists(fs, ServerConfigFile)
        /\ IF FirstRun(fs)
           THEN \* extract known configuration
                \E known0 \in {GetServerKnownConfig(btc_conf, old_conf)} :
                \* generate random password
                \E gen \in {"rpc-password" \notin DOMAIN known0} :
                \E known \in {IF gen
                              THEN DictUpdate(known0, [k \in {"rpc-password"} |-> pw])
                              ELSE known0} :
                \E fs1 \in {GenerateConfigFile(fs, ServerConfigFile, SERVER_CONFIG_ARGS,
                                               StrDict(known), FALSE)} :
                \E client_missing \in {~Exists(fs1, ClientConfigFile)} :
                \E client \in {IF client_missing THEN ServerToClientConfig(known)
                               ELSE EmptyDict} :
                \E fs2 \in {IF client_missing
                            THEN GenerateConfigFile(fs1, ClientConfigFile,
                                                    CLIENT_CONFIG_ARGS, StrDict(client),
                                                    FALSE)
                            ELSE fs1} :
                    /\ bitcoincore_config' = ExtractBitcoincoreConfig(btc_conf)
                    /\ old_config' = ExtractOldConfig(old_conf)
                    /\ merged' = known0
                    /\ probed' = TRUE
                    /\ generated' = (IF gen THEN pw ELSE "")
                    /\ ngen' = (IF gen THEN ngen + 1 ELSE ngen)
                    /\ server_known_config' = known
                    /\ client_known_config' = client
                    /\ files' = fs2.files
                    /\ dirs' = fs2.dirs
                    /\ created' = (IF created = <<>>
                                   THEN fs2.files[ServerConfigFile].data ELSE created)
                    /\ last' = (IF client_missing THEN "both" ELSE "server")
           ELSE /\ bitcoincore_config' = EmptyDict
                /\ old_config' = EmptyDict
                /\ merged' = EmptyDict
                /\ probed' = FALSE
                /\ generated' = ""
                /\ server_known_config' = EmptyDict
                /\ client_known_config' = EmptyDict
                /\ last' = "skipped"
                /\ UNCHANGED <<files, dirs, ngen, created>>
        /\ UNCHANGED <<btc_conf, old_conf, extractVars, renderVars, bootVars>>

(***************************************************************************)
(* Specification SpecConfig: generate_config_files called any number of    *)
(* times, over every bitcoin.conf of at most MaxBtcLines lines and every   *)
(* legacy file of at most MaxOldItems options; between calls the legacy    *)
(* file may be edited.                                                     *)
(***************************************************************************)
BtcLinePool == { "rpcport=8332", "rpcuser = alice", "rpcpassword=p#1", "rpcssl" }

BtcConfs ==
    {[exists |-> FALSE, lines |-> <<>>]}
        \cup { [exists |-> TRUE, lines |-> l] :
               l \in UNION { [1..n -> BtcLinePool] : n \in 0..MaxBtcLines } }

OldItemPool ==
    { [key |-> "backend-rpc-port", value |-> "8333"],
      [key |-> "backend-connect", value |-> "10.0.0.5"],
      [key |-> "blockchain-service-name", value |-> "jmcorgan"],
      [key |-> "rpc-password", value |-> ""],
      [key |-> "rpc-password", value |-> "secret"] }

\* configparser refuses a section that names an option twice.
OldConfs ==
    { [exists |-> FALSE, has_default |-> FALSE, items |-> <<>>],
      [exists |-> TRUE, has_default |-> FALSE, items |-> <<>>] }
        \cup { [exists |-> TRUE, has_default |-> TRUE, items |-> l] :
               l \in { q \in UNION { [1..n -> OldItemPool] : n \in 0..MaxOldItems } :
                       \A i, j \in 1..Len(q) : q[i].key = q[j].key => i = j } }

UserFile == [data |-> <<"[Default]", "", "rpc-password = mine">>, mode |-> "0o600"]

ConfigFiles0 ==
    { NoFiles,
      [p \in {ServerConfigFile} |-> UserFile],
      [p \in {ClientConfigFile} |-> UserFile] }

InitConfig ==
    /\ files \in ConfigFiles0
    /\ dirs = (IF files = NoFiles THEN {"/"} ELSE {"/", ConfigDir})
    /\ btc_conf \in BtcConfs
    /\ old_conf \in OldConfs
    /\ bitcoincore_config = EmptyDict
    /\ old_config = EmptyDict
    /\ merged = EmptyDict
    /\ server_known_config = EmptyDict
    /\ client_known_config = EmptyDict
    /\ last = "none"
    /\ probed = FALSE
    /\ generated = ""
    /\ existed = FALSE
    /\ ngen = 0
    /\ created = (IF ServerConfigFile \in DOMAIN files
                  THEN files[ServerConfigFile].data ELSE <<>>)
    /\ ExtractIdle
    /\ RenderIdle
    /\ BootIdle

\* The user rewrites the legacy file after a call.
EditedOldConf ==
    [exists |-> TRUE, has_default |-> TRUE,
     items |-> << [key |-> "backend-rpc-port", value |-> "9999"] >>]

EditOldConf ==
    /\ last # "none"
    /\ old_conf # EditedOldConf
    /\ old_conf' = EditedOldConf
    /\ UNCHANGED <<files, dirs, extractVars, renderVars, bootVars, btc_conf,
                   bitcoincore_config, old_config,
                   merged, server_known_config, client_known_config, last, probed,
                   generated, existed, ngen, created>>

NextConfig == GenerateConfigFiles \/ EditOldConf

SpecConfig == InitConfig /\ [][NextConfig]_vars

(***************************************************************************)
(* C2: get_server_known_config merges legacy over foreign: for every key,  *)
(* the resolved value is the legacy mapping's if the key is there,         *)
(* otherwise the foreign mapping's if the key is there, otherwise the key  *)
(* is absent from the resolved mapping.                                    *)
(***************************************************************************)
C2_LegacyOverForeign ==
    probed =>
        \A k \in (DOMAIN old_config) \cup (DOMAIN bitcoincore_config) \cup (DOMAIN merged) :
            IF k \in DOMAIN old_config
            THEN k \in DOMAIN merged /\ merged[k] = old_config[k]
            ELSE IF k \in DOMAIN bitcoincore_config
                 THEN k \in DOMAIN merged /\ merged[k] = bitcoincore_config[k]
                 ELSE k \notin DOMAIN merged

\* The spec's example: foreign {rpcport: 8332, rpcuser: alice}, legacy
\* {backend-rpc-port: 8333} resolve to backend-port = 8333, backend-user = alice.
C2_Witness ==
    /\ probed
    /\ btc_conf.lines = <<"rpcport=8332", "rpcuser = alice">>
    /\ old_conf.items = << [key |-> "backend-rpc-port", value |-> "8333"] >>
    /\ bitcoincore_config = [k \in {"backend-port", "backend-user"} |->
                                IF k = "backend-port" THEN "8332" ELSE "alice"]
    /\ old_config = [k \in {"backend-port"} |-> "8333"]
    /\ merged = [k \in {"backend-port", "backend-user"} |->
                    IF k = "backend-port" THEN "8333" ELSE "alice"]

(***************************************************************************)
(* C4: after a first-run generate_config_files the resolved server         *)
(* configuration rendered to server.conf carries a non-empty rpc-password, *)
(* whatever the two source files contain.                                  *)
(***************************************************************************)
C4_PasswordNeverEmpty ==
    (last \in {"both", "server"} /\ ~existed) =>
        /\ "rpc-password" \in DOMAIN server_known_config
        /\ server_known_config["rpc-password"] # ""

(***************************************************************************)
(* C5: credential generation happens at most once per installation: a call *)
(* that finds server.conf probes no source, generates no password and      *)
(* leaves server.conf as it is; over any sequence of calls server.conf     *)
(* holds what it held when it first existed, and at most one password is   *)
(* ever generated.                                                         *)
(***************************************************************************)
C5_GeneratedAtMostOnce ==
    /\ existed => (last = "skipped" /\ ~probed /\ generated = "")
    /\ created # <<>> =>
           (ServerConfigFile \in DOMAIN files /\ files[ServerConfigFile].data = created)
    /\ ngen <= 1

\* A first call generated a password and wrote it; the legacy file was then
\* rewritten and a second call skipped it.
C5_Witness ==
    /\ last = "skipped" /\ existed
    /\ ngen = 1
    /\ old_conf = EditedOldConf
    /\ \E pw \in Passwords :
           \E i \in 1..Len(created) : created[i] = "rpc-password = " \o pw

(***************************************************************************)
(* C9: server_to_client_config returns exactly the translated subset: the  *)
(* client key of every server key the translation table holds, with the    *)
(* server's value, and no other key.                                       *)
(***************************************************************************)
C9_TranslatedSubset ==
    last = "both" =>
        LET mapped == (DOMAIN server_known_config) \cap (DOMAIN ClientKeys)
        IN /\ DOMAIN client_known_config = {ClientKeys[k] : k \in mapped}
           /\ \A k \in mapped :
                  client_known_config[ClientKeys[k]] = server_known_config[k]

\* As in the spec's example: backend-connect = 10.0.0.5 and an rpc-password (here
\* the generated one), with the untranslated backend-name beside them, give
\* exactly wallet-connect and metronotes-rpc-password.
C9_Witness ==
    /\ last = "both"
    /\ generated # ""
    /\ DOMAIN server_known_config = {"backend-connect", "rpc-password", "backend-name"}
    /\ client_known_config =
           [k \in {"wallet-connect", "metronotes-rpc-password"} |->
                IF k = "wallet-connect" THEN "10.0.0.5" ELSE generated]

(***************************************************************************)
(* Specification SpecRender: generate_config_file called any number of     *)
(* times on one path, with every config_args list of at most MaxArgs       *)
(* entries from ArgPool, every mapping of KnownPool and either value of    *)
(* overwrite.                                                              *)
(***************************************************************************)
ArgPool ==
    { Arg(<<"--backend-port">>, "backend port", FALSE, PyNone),
      Arg(<<"-v", "--verbose">>, "more output", TRUE, PyBool(FALSE)),
      Arg(<<"--backend-name">>, "the backend", TRUE, PyStr("addrindex")),
      Arg(<<"--rpc-user">>, "API user", TRUE, PyNone) }

\* The canonical key is unique within a schema list.
Schemas ==
    { q \in UNION { [1..n -> ArgPool] : n \in 0..MaxArgs } :
          \A i, j \in 1..Len(q) : q[i] = q[j] => i = j }

KnownPool ==
    { [k \in {} |-> PyNone],
      [k \in {"backend-port", "verbose"} |->
          IF k = "backend-port" THEN PyInt(8333) ELSE PyBool(TRUE)],
      [k \in {"backend-name", "rpc-user"} |->
          IF k = "backend-name" THEN PyDec(150) ELSE PyStr("")] }

InitRender ==
    /\ files \in { NoFiles, [p \in {ServerConfigFile} |-> UserFile] }
    /\ dirs = (IF files = NoFiles THEN {"/"} ELSE {"/", ConfigDir})
    /\ overwrite = FALSE
    /\ config_args = <<>>
    /\ known_config = EmptyDict
    /\ outcome = "none"
    /\ was_there = FALSE
    /\ origin = (IF ServerConfigFile \in DOMAIN files
                 THEN files[ServerConfigFile].data ELSE <<>>)
    /\ ExtractIdle
    /\ ConfigIdle
    /\ BootIdle

GenerateConfigFileCall ==
    \E args \in Schemas, known \in KnownPool, ow \in BOOLEAN :
    \E fs \in {[files |-> files, dirs |-> dirs]} :
    \E fs1 \in {GenerateConfigFile(fs, ServerConfigFile, args, known, ow)} :
    \E skipped \in {SkipsWrite(fs, ServerConfigFile, ow)} :
        /\ files' = fs1.files
        /\ dirs' = fs1.dirs
        /\ overwrite' = ow
        /\ outcome' = (IF skipped THEN "skipped" ELSE "written")
        /\ config_args' = (IF skipped THEN config_args ELSE args)
        /\ known_config' = (IF skipped THEN known_config ELSE known)
        /\ was_there' = Exists(fs, ServerConfigFile)
        /\ origin' = (IF ow \/ ~Exists(fs, ServerConfigFile)
                      THEN fs1.files[ServerConfigFile].data ELSE origin)
        /\ UNCHANGED <<extractVars, configVars, bootVars>>

NextRender == GenerateConfigFileCall

SpecRender == InitRender /\ [][NextRender]_vars

(***************************************************************************)
(* C3: generate_config_file with overwrite = False is a no-op on an        *)
(* existing file: the call changes no file and no directory, whatever the  *)
(* schema and the mapping passed; so the file holds the data it had when   *)
(* it was created (or last written with overwrite = True).                 *)
(***************************************************************************)
C3_NoOverwriteIsNoOp ==
    /\ [][(~overwrite' /\ ServerConfigFile \in DOMAIN files)
              => (files' = files /\ dirs' = dirs)]_vars
    /\ [](ServerConfigFile \in DOMAIN files => files[ServerConfigFile].data = origin)

\* A call wrote the file from a non-empty schema, and a later overwrite = False
\* call returned early, leaving that data.
C3_Witness ==
    /\ outcome = "skipped" /\ was_there /\ ~overwrite
    /\ config_args # <<>>
    /\ files[ServerConfigFile].data = ConfigLines(config_args, known_config)
    /\ files[ServerConfigFile].data = origin

(***************************************************************************)
(* C8: when generate_config_file writes a file, every schema entry yields  *)
(* exactly one key line, in schema order, after its help comment: active   *)
(* with the resolved value if the key is in the resolved mapping, else     *)
(* active with the schema default if the entry has a default value, else   *)
(* commented out with an empty value; booleans render as 1 or 0.           *)
(***************************************************************************)
\* How a value reads in an active line.
C8_Text(v) ==
    IF v.t = "bool" THEN (IF v.b THEN "1" ELSE "0")
    ELSE IF v.t = "dec" THEN Format8f(v.n)
    ELSE IF v.t = "int" THEN ToString(v.n)
    ELSE v.s

\* The key line the claim gives the entry arg under the mapping known.  The
\* canonical key is the last flag without its two leading dashes; a default
\* declared as None is no default value.
C8_KeyLine(arg, known) ==
    LET flag == arg.flags[Len(arg.flags)]
        key == SubSeq(flag, 3, Len(flag))
    IN IF key \in DOMAIN known THEN key \o " = " \o C8_Text(known[key])
       ELSE IF arg.has_default /\ arg.default.t # "none"
            THEN key \o " = " \o C8_Text(arg.default)
            ELSE "# " \o key \o " = "

C8_RenderedLines ==
    outcome = "written" =>
        LET lines == files[ServerConfigFile].data IN
        /\ Len(lines) = 2 + 3 * Len(config_args)
        /\ lines[1] = "[Default]"
        /\ lines[2] = ""
        /\ \A i \in 1..Len(config_args) :
               /\ lines[3 * i] = "# " \o config_args[i].help
               /\ lines[3 * i + 1] = C8_KeyLine(config_args[i], known_config)
               /\ lines[3 * i + 2] = ""

\* verbose is resolved to True and renders 1 although its default is False;
\* rpc-user has neither a resolved nor a default value and is commented out.
C8_Witness ==
    /\ outcome = "written"
    /\ Len(config_args) = 2
    /\ files[ServerConfigFile].data =
           << "[Default]", "", "# more output", "verbose = 1", "",
              "# API user", "# rpc-user = ", "" >>

(***************************************************************************)
(* bootstrap                                                               *)
(***************************************************************************)
DataDir == "/h/data"    \* appdirs.user_data_dir(...)
Database == PathJoin(DataDir, "metronotes.db")
DatabaseTestnet == PathJoin(DataDir, "metronotes.testnet.db")

\* Per network variant: the archive's local name, the payload's name in the
\* archive and the payload's final path.
ArchiveName(v) ==
    IF v = "main" THEN "metronotesd-db.latest.tar.gz"
    ELSE "metronotesd-testnet-db.latest.tar.gz"

PayloadName(v) == IF v = "main" THEN "metronotesd.9.db" ELSE "metronotesd.9.testnet.db"

FinalPath(v) == IF v = "main" THEN Database ELSE DatabaseTestnet

\* What the server may send: an archive is named by the one line of the
\* downloaded file's data; tarfile.open gives its members.
ArchiveIds == {"good", "nosums", "empty", "traversal", "sibling", "garbage"}

ArchiveMembers(id, v) ==
    LET payload == [name |-> PayloadName(v), data |-> <<"db-" \o v>>]
        sums == [name |-> "checksums.txt", data |-> <<"sums-" \o v>>]
    IN IF id = "good" THEN <<payload, sums>>
       ELSE IF id = "nosums" THEN <<payload>>
       ELSE IF id = "traversal"
            THEN <<payload, sums, [name |-> "../../etc/passwd", data |-> <<"evil">>]>>
       ELSE IF id = "sibling"
            THEN <<payload, sums, [name |-> "../d2/f", data |-> <<"evil">>]>>
       ELSE <<>>

WriteFile(fs, path, data, mode) ==
    [fs EXCEPT !.files = [p \in (DOMAIN fs.files) \cup {path} |->
                              IF p = path THEN [data |-> data, mode |-> mode]
                              ELSE fs.files[p]]]

\* Faulty variant: os.remove leaves the file.
RemoveFileKeeps(fs, path) == fs

\* os.remove(path) of an existing file
RemoveFile(fs, path) ==
    [fs EXCEPT !.files = [p \in (DOMAIN fs.files) \ {path} |-> fs.files[p]]]

\* shutil.move(src, dst) of an existing file, then os.chmod(dst, 0o660)
MoveFile(fs, src, dst) ==
    RemoveFile(WriteFile(fs, dst, fs.files[src].data, "0o660"), src)

\* Faulty variant: the database is never taken as already there.
SkipsBootstrapNever(fs, ow) == FALSE

\* The early return of bootstrap on an existing database.
SkipsBootstrap(fs, ow) == ~ow /\ Exists(fs, Database)

\* bootstrap(overwrite, ask_confirmation) up to the first download.
BootstrapBegin ==
    /\ pc = "idle"
    /\ \E ow \in BOOLEAN, ask_confirmation \in BOOLEAN :
       \E fs \in {[files |-> files, dirs |-> dirs]} :
       \E fs1 \in {IF Exists(fs, DataDir) THEN fs
                   ELSE [fs EXCEPT !.dirs = fs.dirs \cup MakeDirs(DataDir)]} :
           /\ ov' = ow
           /\ ask' = ask_confirmation
           /\ files0' = files
           /\ dirs0' = dirs
           /\ files' = fs1.files
           /\ dirs' = fs1.dirs
           /\ pc' = (IF SkipsBootstrap(fs1, ow) THEN "returned"
                     ELSE IF ask_confirmation THEN "confirm"
                     ELSE "download_main")
    /\ UNCHANGED <<declined, log, failed, extractVars, configVars, renderVars>>

\* str.lower() on the answers asked of it
Lower(s) == IF s = "Y" THEN "y" ELSE IF s = "N" THEN "n" ELSE s

\* input(question).lower() != 'y'
Confirm ==
    /\ pc = "confirm"
    /\ \E answer \in {"y", "Y", "n", "N", "", "yes"} :
           /\ declined' = (Lower(answer) # "y")
           /\ pc' = (IF Lower(answer) # "y" THEN "returned" ELSE "download_main")
    /\ log' = Append(log, "prompt")
    /\ UNCHANGED <<files, dirs, ov, ask, failed, files0, dirs0,
                   extractVars, configVars, renderVars>>

Frame == UNCHANGED <<ov, ask, declined, files0, dirs0, extractVars, configVars, renderVars>>

\* urllib.request.urlretrieve(url, archive name, reporthook) succeeds
Download(v) ==
    /\ pc = "download_" \o v
    /\ \E id \in ArchiveIds :
       \E fs \in {WriteFile([files |-> files, dirs |-> dirs],
                            AbsPath(Cwd, ArchiveName(v)), <<id>>, "0o644")} :
           files' = fs.files
    /\ log' = Append(log, "download_" \o v)
    /\ pc' = "extract_" \o v
    /\ UNCHANGED <<dirs, failed>>
    /\ Frame

\* urlretrieve raises, before the local file is opened or after part of the
\* body was written to it
DownloadFails(v) ==
    /\ pc = "download_" \o v
    /\ \/ UNCHANGED files
       \/ \E fs \in {WriteFile([files |-> files, dirs |-> dirs],
                               AbsPath(Cwd, ArchiveName(v)), <<"garbage">>, "0o644")} :
              files' = fs.files
    /\ failed' = "download_" \o v
    /\ pc' = "raised"
    /\ UNCHANGED <<dirs, log>>
    /\ Frame

\* tarfile.open(archive name, 'r:gz') and safe_extract(tar_file)
Extract(v) ==
    /\ pc = "extract_" \o v
    /\ \E id \in {files[AbsPath(Cwd, ArchiveName(v))].data[1]} :
       \E members \in {ArchiveMembers(id, v)} :
           IF id = "garbage" \/ SafeExtractRaises(members, ".")
           THEN /\ failed' = "extract_" \o v
                /\ pc' = "raised"
                /\ UNCHANGED <<files, dirs, log>>
           ELSE /\ files' = ExtractAllFiles(files, members, ".")
                /\ dirs' = ExtractAllDirs(dirs, members, ".")
                /\ log' = Append(log, "extract_" \o v)
                /\ pc' = "move_" \o v
                /\ UNCHANGED failed
    /\ Frame

\* shutil.move(payload, database) and os.chmod(database, 0o660)
Move(v) ==
    /\ pc = "move_" \o v
    /\ \E src \in {AbsPath(Cwd, PayloadName(v))} :
           IF src \notin DOMAIN files
           THEN /\ failed' = "move_" \o v
                /\ pc' = "raised"
                /\ UNCHANGED <<files, log>>
           ELSE /\ \E fs \in {MoveFile([files |-> files, dirs |-> dirs], src, FinalPath(v))} :
                       files' = fs.files
                /\ log' = Append(log, "move_" \o v)
                /\ pc' = (IF v = "main" THEN "download_test" ELSE "remove_main")
                /\ UNCHANGED failed
    /\ UNCHANGED dirs
    /\ Frame

\* The three os.remove calls that end bootstrap.
CleanTarget(step) ==
    IF step = "remove_main" THEN ArchiveName("main")
    ELSE IF step = "remove_test" THEN ArchiveName("test")
    ELSE "checksums.txt"

Remove(step) ==
    /\ pc = step
    /\ \E path \in {AbsPath(Cwd, CleanTarget(step))} :
           IF path \notin DOMAIN files
           THEN /\ failed' = step
                /\ pc' = "raised"
                /\ UNCHANGED <<files, log>>
           ELSE /\ \E fs \in {RemoveFile([files |-> files, dirs |-> dirs], path)} :
                       files' = fs.files
                /\ log' = Append(log, step)
                /\ pc' = (IF step = "remove_main" THEN "remove_test"
                          ELSE IF step = "remove_test" THEN "remove_sums"
                          ELSE "returned")
                /\ UNCHANGED failed
    /\ UNCHANGED dirs
    /\ Frame

(***************************************************************************)
(* Specification SpecBootstrap: one call of bootstrap, with either value   *)
(* of each argument, from a fresh machine, from one bootstrapped before,   *)
(* and from one where an earlier call failed and left its files behind.    *)
(***************************************************************************)
BootDirs == {"/", "/etc", "/w", Cwd}

OldDb(v) == [data |-> <<"old-db-" \o v>>, mode |-> "0o660"]

BootFs0 ==
    { [files |-> NoFiles, dirs |-> BootDirs],
      [files |-> NoFiles, dirs |-> BootDirs \cup MakeDirs(DataDir)],
      [files |-> (Database :> OldDb("main") @@ DatabaseTestnet :> OldDb("test")),
       dirs |-> BootDirs \cup MakeDirs(DataDir)],
      [files |-> (DatabaseTestnet :> OldDb("test")
                    @@ AbsPath(Cwd, "checksums.txt")
                           :> [data |-> <<"sums-old">>, mode |-> "0o644"]
                    @@ AbsPath(Cwd, ArchiveName("main"))
                           :> [data |-> <<"garbage">>, mode |-> "0o644"]),
       dirs |-> BootDirs \cup MakeDirs(DataDir)] }

InitBootstrap ==
    /\ \E fs \in BootFs0 : files = fs.files /\ dirs = fs.dirs
    /\ BootIdle
    /\ ExtractIdle
    /\ ConfigIdle
    /\ RenderIdle

NextBootstrap ==
    \/ BootstrapBegin
    \/ Confirm
    \/ \E v \in {"main", "test"} : Download(v)
    \/ \E v \in {"main", "test"} : DownloadFails(v)
    \/ \E v \in {"main", "test"} : Extract(v)
    \/ \E v \in {"main", "test"} : Move(v)
    \/ \E step \in {"remove_main", "remove_test", "remove_sums"} : Remove(step)

SpecBootstrap == InitBootstrap /\ [][NextBootstrap]_vars

(***************************************************************************)
(* C6: bootstrap(overwrite = False) short-circuits on an existing          *)
(* database: the call returns with no prompt, no download, no extraction,  *)
(* no move and no deletion, and every file and directory is as it was.     *)
(***************************************************************************)
C6_ShortCircuit ==
    (pc # "idle" /\ ~ov /\ Database \in DOMAIN files0) =>
        /\ pc = "returned"
        /\ log = <<>>
        /\ ~declined
        /\ files = files0
        /\ dirs = dirs0

\* Called with ask_confirmation = True on an existing database: returned
\* without asking.
C6_Witness ==
    /\ pc = "returned" /\ ~ov /\ ask
    /\ Database \in DOMAIN files0
    /\ files[Database] = OldDb("main")

(***************************************************************************)
(* C7: declining the confirmation is a successful no-op: the call returns  *)
(* normally, no download was started, and the file system (data            *)
(* directory, database files, temporary archives) is exactly as it was     *)
(* before the call.                                                        *)
(***************************************************************************)
C7_DeclineIsNoOp ==
    (pc = "returned" /\ declined) =>
        /\ log = <<"prompt">>
        /\ failed = ""
        /\ files = files0
        /\ dirs = dirs0

(***************************************************************************)
(* C10: a bootstrap run that is neither skipped nor declined takes its     *)
(* steps in a fixed order: download, extraction and move for main, then    *)
(* for test, then the three deletions; a run that returns normally leaves  *)
(* both databases at their final paths and no archive or checksum file     *)
(* behind.  As amended: when a download, an extraction or a move fails,    *)
(* the error propagates and no deletion has been performed; when a         *)
(* deletion fails, the error propagates and the deletions before it stay   *)
(* done.                                                                   *)
(***************************************************************************)
FullOrder ==
    << "download_main", "extract_main", "move_main",
       "download_test", "extract_test", "move_test",
       "remove_main", "remove_test", "remove_sums" >>

RemoveSteps == {"remove_main", "remove_test", "remove_sums"}

\* The steps of the run after the optional prompt.
Steps == IF log # <<>> /\ log[1] = "prompt" THEN Tail(log) ELSE log

C10_InOrder == Len(Steps) <= Len(FullOrder) /\ Steps = SubSeq(FullOrder, 1, Len(Steps))

C10_NormalReturn ==
    (pc = "returned" /\ Steps # <<>>) =>
        /\ Steps = FullOrder
        /\ failed = ""
        /\ \A v \in {"main", "test"} :
               /\ FinalPath(v) \in DOMAIN files
               /\ files[FinalPath(v)] = [data |-> <<"db-" \o v>>, mode |-> "0o660"]
               /\ AbsPath(Cwd, ArchiveName(v)) \notin DOMAIN files
        /\ AbsPath(Cwd, "checksums.txt") \notin DOMAIN files

C10_NoCleanup == \A i \in 1..Len(Steps) : Steps[i] \notin RemoveSteps

\* The claim as stated: whichever step fails, no cleanup has been performed.
C10_Original ==
    /\ C10_InOrder
    /\ C10_NormalReturn
    /\ (pc = "raised" <=> failed # "")
    /\ pc = "raised" => C10_NoCleanup

C10_StepsInOrder ==
    /\ C10_InOrder
    /\ C10_NormalReturn
    /\ (pc = "raised" <=> failed # "")
    /\ (pc = "raised" /\ failed \notin RemoveSteps) => C10_NoCleanup
    /\ (pc = "raised" /\ failed \in RemoveSteps) =>
           /\ Steps = SubSeq(FullOrder, 1, Len(Steps))
           /\ failed = FullOrder[Len(Steps) + 1]

\* A confirmed run that went through all nine steps and returned.
C10_Witness ==
    /\ pc = "returned"
    /\ log = <<"prompt">> \o FullOrder
    /\ files0 # NoFiles

====
